---- MODULE Spec2Model ----
(***************************************************************************)
(* Model of package config (src/config/config.go): the process-wide        *)
(* adapter registry `adapters`, Register, NewConfig and NewConfigData.      *)
(*                                                                         *)
(* Go strings and []byte are sequences of byte values.  An adapter (a      *)
(* value of interface Config) is an identity 1..NumAdapters, the nil       *)
(* interface value is Nil.  What an adapter's Parse/ParseData returns is    *)
(* outside the package: it is an input of the call, drawn from             *)
(* ParseResults.                                                           *)
(***************************************************************************)
EXTENDS Integers, Sequences, FiniteSets, TLC

VARIABLES adapters,  \* var adapters map[string]Config
          before,    \* Spec: the registry as it was when the last call was made
          last,      \* Spec: the call made last: arguments, outcome, adapter calls
          pc,        \* SpecConc: position of each goroutine inside Register
          arg,       \* SpecConc: the (name, adapter) each goroutine passes to Register
          fatal      \* SpecConc: the runtime stopped the process (concurrent map access)

vars == <<adapters, before, last, pc, arg, fatal>>

----------------------------------------------------------------------------
(* Bounds *)

MaxNameLen  == 1   \* adapter names have at most this many bytes
MaxInputLen == 1   \* file names / data buffers have at most this many bytes
NumAdapters == 2   \* distinct non-nil adapter values
MaxEntries  == 2   \* Register is explored while the registry has at most this many entries
NumProcs    == 2   \* goroutines calling Register concurrently (SpecConc)

----------------------------------------------------------------------------
(* Values *)

\* the nil interface value of type Config
Nil == 0

Adapters == 1..NumAdapters

\* bytes adapter names are built from: 'a' and '\n'
NameBytes == {97, 10}

\* bytes file names and data buffers are built from: 'a'
InputBytes == {97}

SeqsUpTo(S, n) == UNION {[1..k -> S] : k \in 0..n}

Names == SeqsUpTo(NameBytes, MaxNameLen)

Inputs == SeqsUpTo(InputBytes, MaxInputLen)

\* s contains t as a substring (strings.Contains)
Contains(s, t) ==
    \E i \in 0..(Len(s) - Len(t)) : SubSeq(s, i + 1, i + Len(t)) = t

----------------------------------------------------------------------------
(* Errors, Configers and what adapters return *)

NilError == [isNil |-> TRUE, msg |-> <<>>]

NilConfiger == [isNil |-> TRUE, adapter |-> Nil, method |-> "", src |-> <<>>]

\* the Configer adapter a builds from src by Parse or ParseData
ConfigerOf(a, method, src) ==
    [isNil |-> FALSE, adapter |-> a, method |-> method, src |-> src]

\* the parse error of adapter a: "E1", "E2", ...
AdapterError(a) == [isNil |-> FALSE, msg |-> <<69, 48 + a>>]

\* the (Configer, error) pairs adapter a may return from method(src)
ParseResults(a, method, src) ==
    { [configer |-> ConfigerOf(a, method, src), err |-> NilError],
      [configer |-> NilConfiger, err |-> AdapterError(a)] }

----------------------------------------------------------------------------
(* fmt's %q verb: strconv.Quote, for strings of ASCII bytes *)

HexDigit(d) == IF d < 10 THEN 48 + d ELSE 87 + d

EscapeByte(c) ==
    IF c = 34 \/ c = 92 THEN <<92, c>>
    ELSE IF c >= 32 /\ c <= 126 THEN <<c>>
    ELSE IF c = 7  THEN <<92, 97>>
    ELSE IF c = 8  THEN <<92, 98>>
    ELSE IF c = 12 THEN <<92, 102>>
    ELSE IF c = 10 THEN <<92, 110>>
    ELSE IF c = 13 THEN <<92, 114>>
    ELSE IF c = 9  THEN <<92, 116>>
    ELSE IF c = 11 THEN <<92, 118>>
    ELSE <<92, 120, HexDigit(c \div 16), HexDigit(c % 16)>>

RECURSIVE EscapeAll(_)
EscapeAll(s) ==
    IF s = <<>> THEN <<>> ELSE EscapeByte(Head(s)) \o EscapeAll(Tail(s))

Quote(s) == <<34>> \o EscapeAll(s) \o <<34>>

----------------------------------------------------------------------------
(* Messages *)

\* "config: Register adapter is nil"
NilAdapterPanic ==
    <<99, 111, 110, 102, 105, 103, 58, 32, 82, 101, 103, 105, 115, 116, 101,
      114, 32, 97, 100, 97, 112, 116, 101, 114, 32, 105, 115, 32, 110, 105, 108>>

\* "config: Register called twice for adapter "
TwicePrefix ==
    <<99, 111, 110, 102, 105, 103, 58, 32, 82, 101, 103, 105, 115, 116, 101,
      114, 32, 99, 97, 108, 108, 101, 100, 32, 116, 119, 105, 99, 101, 32,
      102, 111, 114, 32, 97, 100, 97, 112, 116, 101, 114, 32>>

\* "config: Register called twice for adapter " + name
TwicePanic(name) == TwicePrefix \o name

\* "config: unknown adaptername "
UnknownPrefix ==
    <<99, 111, 110, 102, 105, 103, 58, 32, 117, 110, 107, 110, 111, 119, 110,
      32, 97, 100, 97, 112, 116, 101, 114, 110, 97, 109, 101, 32>>

\* " (forgotten import?)"
UnknownSuffix ==
    <<32, 40, 102, 111, 114, 103, 111, 116, 116, 101, 110, 32, 105, 109, 112,
      111, 114, 116, 63, 41>>

\* fmt.Errorf with the name printed raw (%s) instead of quoted
UnknownAdapterError_raw(adapterName) ==
    [isNil |-> FALSE, msg |-> UnknownPrefix \o adapterName \o UnknownSuffix]

\* fmt.Errorf("config: unknown adaptername %q (forgotten import?)", adapterName)
UnknownAdapterError(adapterName) ==
    [isNil |-> FALSE, msg |-> UnknownPrefix \o Quote(adapterName) \o UnknownSuffix]

----------------------------------------------------------------------------
(* The registry and the three functions, as functions of the registry *)

\* adapter, ok := adapters[name]
Lookup(m, name) ==
    IF name \in DOMAIN m THEN [adapter |-> m[name], ok |-> TRUE]
                         ELSE [adapter |-> Nil, ok |-> FALSE]

\* adapters[name] = adapter
MapAssign(m, name, adapter) ==
    [n \in (DOMAIN m) \cup {name} |-> IF n = name THEN adapter ELSE m[n]]

Returned(m) == [outcome |-> "return", panic |-> <<>>, adapters |-> m]

Panicked(msg, m) == [outcome |-> "panic", panic |-> msg, adapters |-> m]

\* Register without the already-registered check
Register_overwrite(m, name, adapter) ==
    IF adapter = Nil THEN Panicked(NilAdapterPanic, m)
    ELSE Returned(MapAssign(m, name, adapter))

\* Register without the nil check
Register_storeNil(m, name, adapter) ==
    IF Lookup(m, name).ok THEN Panicked(TwicePanic(name), m)
    ELSE Returned(MapAssign(m, name, adapter))

\* Register that writes before it checks the name
Register_writeFirst(m, name, adapter) ==
    IF adapter = Nil THEN Panicked(NilAdapterPanic, m)
    ELSE IF Lookup(m, name).ok THEN Panicked(TwicePanic(name), MapAssign(m, name, adapter))
    ELSE Returned(MapAssign(m, name, adapter))

\* Register that returns without storing
Register_noStore(m, name, adapter) ==
    IF adapter = Nil THEN Panicked(NilAdapterPanic, m)
    ELSE IF Lookup(m, name).ok THEN Panicked(TwicePanic(name), m)
    ELSE Returned(m)

\* func Register(name string, adapter Config): outcome and registry after the call
Register(m, name, adapter) ==
    IF adapter = Nil THEN Panicked(NilAdapterPanic, m)
    ELSE IF Lookup(m, name).ok THEN Panicked(TwicePanic(name), m)
    ELSE Returned(MapAssign(m, name, adapter))

\* the record of one call on an adapter
AdapterCall(a, method, src, res) ==
    [adapter |-> a, method |-> method, arg |-> src, result |-> res]

\* calling a method on a nil interface value: runtime panic
NilDereference == [outcome |-> "panic", ret |-> [configer |-> NilConfiger, err |-> NilError],
                   calls |-> <<>>]

\* return adapter.<method>(src), the adapter answering res
Delegate(a, method, src, res) ==
    IF a = Nil THEN NilDereference
    ELSE [outcome |-> "return", ret |-> res, calls |-> <<AdapterCall(a, method, src, res)>>]

\* return nil, fmt.Errorf(...)
UnknownAdapter(adapterName) ==
    [outcome |-> "return",
     ret |-> [configer |-> NilConfiger, err |-> UnknownAdapterError(adapterName)],
     calls |-> <<>>]

\* NewConfig that wraps the adapter's error
NewConfig_wrap(m, adapterName, filename, res) ==
    IF ~Lookup(m, adapterName).ok THEN UnknownAdapter(adapterName)
    ELSE LET d == Delegate(Lookup(m, adapterName).adapter, "Parse", filename, res)
         IN IF d.ret.err.isNil THEN d
            ELSE [d EXCEPT !.ret.err.msg = <<99, 111, 110, 102, 105, 103, 58, 32>> \o @]

\* func NewConfig(adapterName, filename string) (Configer, error);
\* res is what the adapter's Parse returns when it is called
NewConfig(m, adapterName, filename, res) ==
    IF ~Lookup(m, adapterName).ok THEN UnknownAdapter(adapterName)
    ELSE Delegate(Lookup(m, adapterName).adapter, "Parse", filename, res)

\* NewConfigData that delegates to Parse
NewConfigData_parse(m, adapterName, data, res) ==
    IF ~Lookup(m, adapterName).ok THEN UnknownAdapter(adapterName)
    ELSE Delegate(Lookup(m, adapterName).adapter, "Parse", data, res)

\* func NewConfigData(adapterName string, data []byte) (Configer, error);
\* res is what the adapter's ParseData returns when it is called
NewConfigData(m, adapterName, data, res) ==
    IF ~Lookup(m, adapterName).ok THEN UnknownAdapter(adapterName)
    ELSE Delegate(Lookup(m, adapterName).adapter, "ParseData", data, res)

----------------------------------------------------------------------------
(* Sequential specification: one call after another *)

NoCall == [op |-> "none", name |-> <<>>, adapter |-> Nil, input |-> <<>>,
           outcome |-> "return", panic |-> <<>>,
           ret |-> [configer |-> NilConfiger, err |-> NilError], calls |-> <<>>]

ProcIds == 1..NumProcs

IdleProcs == [p \in ProcIds |-> "idle"]

NoArgs == [p \in ProcIds |-> [name |-> <<>>, adapter |-> Nil]]

Init ==
    /\ adapters = <<>>
    /\ before = <<>>
    /\ last = NoCall
    /\ pc = IdleProcs
    /\ arg = NoArgs
    /\ fatal = FALSE

\* the answers the adapter registered under name may give to method(src)
Answers(m, name, method, src) == ParseResults(Lookup(m, name).adapter, method, src)

CallRegister ==
    \E name \in Names, adapter \in Adapters \cup {Nil} :
        LET r == Register(adapters, name, adapter) IN
        /\ Cardinality(DOMAIN r.adapters) <= MaxEntries
        /\ adapters' = r.adapters
        /\ before' = adapters
        /\ last' = [NoCall EXCEPT !.op = "Register", !.name = name, !.adapter = adapter,
                                  !.outcome = r.outcome, !.panic = r.panic]
        /\ UNCHANGED <<pc, arg, fatal>>

CallNewConfig ==
    \E adapterName \in Names, filename \in Inputs :
      \E res \in Answers(adapters, adapterName, "Parse", filename) :
        LET r == NewConfig(adapters, adapterName, filename, res) IN
        /\ last' = [NoCall EXCEPT !.op = "NewConfig", !.name = adapterName,
                                  !.input = filename, !.outcome = r.outcome,
                                  !.ret = r.ret, !.calls = r.calls]
        /\ before' = adapters
        /\ UNCHANGED <<adapters, pc, arg, fatal>>

CallNewConfigData ==
    \E adapterName \in Names, data \in Inputs :
      \E res \in Answers(adapters, adapterName, "ParseData", data) :
        LET r == NewConfigData(adapters, adapterName, data, res) IN
        /\ last' = [NoCall EXCEPT !.op = "NewConfigData", !.name = adapterName,
                                  !.input = data, !.outcome = r.outcome,
                                  !.ret = r.ret, !.calls = r.calls]
        /\ before' = adapters
        /\ UNCHANGED <<adapters, pc, arg, fatal>>

Next == CallRegister \/ CallNewConfig \/ CallNewConfigData

Spec == Init /\ [][Next]_vars

----------------------------------------------------------------------------
(* Concurrent specification: NumProcs goroutines, each calling Register     *)
(* once.  `adapters` is a plain map with no lock, so the statements of the *)
(* calls interleave; a map access that overlaps another goroutine's write  *)
(* is a data race, which the Go runtime may detect and stop the process.   *)

\* go Register(name, adapter)
Enter(p) ==
    /\ ~fatal /\ pc[p] = "idle"
    /\ \E name \in Names, adapter \in Adapters \cup {Nil} :
           arg' = [arg EXCEPT ![p] = [name |-> name, adapter |-> adapter]]
    /\ pc' = [pc EXCEPT ![p] = "nil"]
    /\ UNCHANGED <<adapters, before, last, fatal>>

\* if adapter == nil { panic(...) }
CheckNil(p) ==
    /\ ~fatal /\ pc[p] = "nil"
    /\ pc' = [pc EXCEPT ![p] = IF arg[p].adapter = Nil THEN "panicNil" ELSE "dup"]
    /\ UNCHANGED <<adapters, before, last, arg, fatal>>

\* if _, ok := adapters[name]; ok { panic(...) }
CheckDup(p) ==
    /\ ~fatal /\ pc[p] = "dup"
    /\ pc' = [pc EXCEPT ![p] = IF Lookup(adapters, arg[p].name).ok THEN "panicTwice"
                                                                   ELSE "store"]
    /\ UNCHANGED <<adapters, before, last, arg, fatal>>

\* adapters[name] = adapter: the map write begins
StoreBegin(p) ==
    /\ ~fatal /\ pc[p] = "store"
    /\ pc' = [pc EXCEPT ![p] = "storing"]
    /\ UNCHANGED <<adapters, before, last, arg, fatal>>

\* adapters[name] = adapter: the map write takes effect and Register returns
StoreEnd(p) ==
    /\ ~fatal /\ pc[p] = "storing"
    /\ adapters' = MapAssign(adapters, arg[p].name, arg[p].adapter)
    /\ pc' = [pc EXCEPT ![p] = "returned"]
    /\ UNCHANGED <<before, last, arg, fatal>>

\* a read or write of the map overlaps another goroutine's write: the runtime
\* may stop the process ("concurrent map writes" / "concurrent map read and map write")
ConcurrentMapFatal ==
    /\ ~fatal
    /\ \E p, q \in ProcIds :
           p # q /\ pc[p] = "storing" /\ pc[q] \in {"dup", "store", "storing"}
    /\ fatal' = TRUE
    /\ UNCHANGED <<adapters, before, last, pc, arg>>

NextConc ==
    \/ \E p \in ProcIds : Enter(p)
    \/ \E p \in ProcIds : CheckNil(p)
    \/ \E p \in ProcIds : CheckDup(p)
    \/ \E p \in ProcIds : StoreBegin(p)
    \/ \E p \in ProcIds : StoreEnd(p)
    \/ ConcurrentMapFatal

SpecConc == Init /\ [][NextConc]_vars

----------------------------------------------------------------------------
(* Properties of the sequential specification Spec *)

IsRegister == last.op = "Register"

IsLookup == last.op \in {"NewConfig", "NewConfigData"}

\* %q prints name as it is, between the quotes
NoEscapes(name) == \A i \in 1..Len(name) : EscapeByte(name[i]) = <<name[i]>>

\* C1: Register(n, a) with n not registered and a non-nil returns normally, and
\* the lookup of n that NewConfig and NewConfigData then make finds exactly a:
\* they delegate to a and to no other registered adapter.
C1_RegisterThenLookup ==
    (IsRegister /\ last.name \notin DOMAIN before /\ last.adapter # Nil) =>
        /\ last.outcome = "return"
        /\ Lookup(adapters, last.name) = [adapter |-> last.adapter, ok |-> TRUE]
        /\ \A src \in Inputs :
             /\ \A res \in ParseResults(last.adapter, "Parse", src) :
                    NewConfig(adapters, last.name, src, res).calls =
                        <<AdapterCall(last.adapter, "Parse", src, res)>>
             /\ \A res \in ParseResults(last.adapter, "ParseData", src) :
                    NewConfigData(adapters, last.name, src, res).calls =
                        <<AdapterCall(last.adapter, "ParseData", src, res)>>

\* a name has just been registered next to an entry that holds another adapter
C1_Witness ==
    /\ IsRegister /\ last.outcome = "return" /\ last.name \notin DOMAIN before
    /\ \E n \in DOMAIN adapters : n # last.name /\ adapters[n] # last.adapter

\* C2: Register(n, a) with n already registered and a non-nil panics with the
\* "called twice" message, also when a is the adapter registered under n.
C2_DuplicatePanics ==
    (IsRegister /\ last.name \in DOMAIN before /\ last.adapter # Nil) =>
        /\ last.outcome = "panic"
        /\ last.panic = TwicePanic(last.name)

\* the adapter already registered under n was registered under n again
C2_Witness ==
    /\ IsRegister /\ last.name \in DOMAIN before
    /\ last.adapter = before[last.name]
    /\ last.outcome = "panic"

\* C3: Register(n, nil) panics with the "adapter is nil" message whether n is
\* registered or not, and no entry of the registry ever holds nil.
C3_NilPanics ==
    /\ (IsRegister /\ last.adapter = Nil) =>
           (last.outcome = "panic" /\ last.panic = NilAdapterPanic)
    /\ \A n \in DOMAIN adapters : adapters[n] # Nil

\* nil was passed for a name that is registered
C3_Witness ==
    /\ IsRegister /\ last.adapter = Nil /\ last.name \in DOMAIN before
    /\ last.outcome = "panic"

\* C4 as stated: for n not registered NewConfig and NewConfigData return a nil
\* Configer and a non-nil error whose message contains n, and call no adapter.
C4_MessageContainsName ==
    (IsLookup /\ last.name \notin DOMAIN before) =>
        /\ last.outcome = "return"
        /\ last.ret.configer = NilConfiger
        /\ ~last.ret.err.isNil
        /\ Contains(last.ret.err.msg, last.name)
        /\ last.calls = <<>>

\* C4 amended: the message contains n as %q prints it (between double quotes,
\* with the escapes of strconv.Quote), hence n itself when %q escapes none of
\* its bytes.
C4_MessageContainsQuotedName ==
    (IsLookup /\ last.name \notin DOMAIN before) =>
        /\ last.outcome = "return"
        /\ last.ret.configer = NilConfiger
        /\ ~last.ret.err.isNil
        /\ Contains(last.ret.err.msg, Quote(last.name))
        /\ NoEscapes(last.name) => Contains(last.ret.err.msg, last.name)
        /\ last.calls = <<>>

\* an unregistered name that %q escapes was looked up while adapters are registered
C4_Witness ==
    /\ IsLookup /\ last.name \notin DOMAIN before
    /\ ~NoEscapes(last.name)
    /\ adapters # <<>>

\* C5: for n registered with a, NewConfig(n, filename) calls a.Parse once, with
\* filename, and returns the pair a.Parse returned.
C5_NewConfigDelegates ==
    (last.op = "NewConfig" /\ last.name \in DOMAIN before) =>
        /\ last.outcome = "return"
        /\ Len(last.calls) = 1
        /\ last.calls[1].adapter = before[last.name]
        /\ last.calls[1].method = "Parse"
        /\ last.calls[1].arg = last.input
        /\ last.ret = last.calls[1].result

\* the adapter's Parse failed on a non-empty file name
C5_Witness ==
    /\ last.op = "NewConfig" /\ last.name \in DOMAIN before
    /\ last.input # <<>>
    /\ last.ret.err = AdapterError(before[last.name])

\* C6: in every registry state and for every name, NewConfigData fails with the
\* unknown-adapter error exactly when NewConfig does, with the same result;
\* otherwise it makes one call, ParseData(data), on the adapter NewConfig
\* calls Parse on, and returns what that call returned.
C6_NewConfigDataLikeNewConfig ==
    /\ \A n \in Names, src \in Inputs :
         \A r1 \in Answers(adapters, n, "Parse", src),
            r2 \in Answers(adapters, n, "ParseData", src) :
            LET f == NewConfig(adapters, n, src, r1)
                d == NewConfigData(adapters, n, src, r2)
            IN /\ d.outcome = f.outcome
               /\ (f.calls = <<>>) <=> (d.calls = <<>>)
               /\ f.calls = <<>> => d.ret = f.ret
               /\ f.calls # <<>> =>
                     /\ d.calls = <<AdapterCall(f.calls[1].adapter, "ParseData", src, r2)>>
                     /\ d.ret = r2
    /\ last.op = "NewConfigData" =>
         IF last.name \in DOMAIN before
         THEN /\ last.calls = <<AdapterCall(before[last.name], "ParseData",
                                            last.input, last.ret)>>
              /\ last.outcome = "return"
         ELSE /\ last.calls = <<>>
              /\ last.outcome = "return"
              /\ last.ret = NewConfig(before, last.name, last.input, last.ret).ret

\* NewConfigData delegated while some other name is not registered
C6_Witness ==
    /\ last.op = "NewConfigData" /\ last.name \in DOMAIN before
    /\ last.input # <<>>
    /\ \E n \in Names : n \notin DOMAIN adapters

\* C7: an entry, once in the registry, stays, with the same adapter, through
\* every later call.
C7_WriteOnce ==
    [][\A n \in DOMAIN adapters : n \in DOMAIN adapters' /\ adapters'[n] = adapters[n]]_vars

\* another adapter was registered under a registered name, which kept its adapter
C7_Witness ==
    /\ IsRegister /\ last.name \in DOMAIN before /\ last.adapter # Nil
    /\ last.adapter # before[last.name]
    /\ adapters[last.name] = before[last.name]

\* C8: NewConfig and NewConfigData return (they do not panic) for every name
\* and leave the registry as it was.
C8_LookupIsPureRead ==
    IsLookup => (last.outcome = "return" /\ adapters = before)

\* the empty name was looked up and found
C8_Witness ==
    /\ IsLookup /\ last.name = <<>> /\ <<>> \in DOMAIN before
    /\ Len(last.calls) = 1

\* C10: a Register that panics leaves the registry as it was; a Register that
\* returns adds the entry name -> adapter and changes no other entry.
C10_RegisterFrame ==
    IsRegister =>
        IF last.outcome = "panic"
        THEN adapters = before
        ELSE /\ last.name \notin DOMAIN before
             /\ DOMAIN adapters = DOMAIN before \cup {last.name}
             /\ adapters[last.name] = last.adapter
             /\ \A n \in DOMAIN before : adapters[n] = before[n]

\* nil was passed for an unregistered name, which is still unregistered
C10_Witness ==
    /\ IsRegister /\ last.adapter = Nil /\ last.outcome = "panic"
    /\ last.name \notin DOMAIN adapters
    /\ adapters # <<>>

----------------------------------------------------------------------------
(* Property of the concurrent specification SpecConc *)

\* C9: of two Register calls for the same name that run concurrently exactly
\* one succeeds: no two calls for one name both return, and the entry is the
\* adapter of the call that returned.
C9_OneRegistrationWins ==
    \A p, q \in ProcIds :
        (p # q /\ arg[p].name = arg[q].name /\ pc[p] = "returned") =>
            /\ pc[q] # "returned"
            /\ adapters[arg[p].name] = arg[p].adapter

====
